---- MODULE Spec2Model ----
(***************************************************************************)
(* Column store of Akumuli: the registry ColumnStore (columns_ guarded by  *)
(* table_lock_), the writer session CStoreSession with its private cache_, *)
(* the row iterator ChainIterator and the query driver ColumnStore::query. *)
(* NBTreeExtentsList and NBTreeIterator are collaborators declared         *)
(* elsewhere; they are modelled from their documented contract.            *)
(***************************************************************************)
EXTENDS Integers, Sequences, FiniteSets, TLC

\* ---------------------------------------------------------------- bounds
NThreads == 2          \* OS threads, each owning one CStoreSession
MaxId == 2             \* series ids are 1..MaxId
MaxOps == 3            \* operations started in a run, over all threads
LeafCap == 2           \* samples a tree buffers before it seals a block
MaxLen == 3            \* samples a series holds when a query starts
MaxSelect == 3         \* length of select.ids of a request
MaxLimit == 2          \* latest put at which the consumer may refuse
DestSize == 2          \* dest_size of ColumnStore::query (0x1000 in the source)

Threads == 1..NThreads
Ids == 1..MaxId
\* The timestamp and the float64 payload of a written sample are handed to
\* append as they come; the writers of the model submit one of each.
Timestamps == {1}
PayloadTypes == {"FLOAT", "BLOB"}
Values == {1}
Samples == [paramid : Ids, timestamp : Timestamps, type : PayloadTypes, float64 : Values]

NoTree == 0
NoThread == 0

VARIABLES
    columns,      \* ColumnStore::columns_ : id -> tree handle, NoTree if absent
    trees,        \* the NBTreeExtentsList objects the registry has stored
    table_lock,   \* ColumnStore::table_lock_ : the holding thread, or NoThread
    cache,        \* CStoreSession::cache_ of each thread's session
    pc,           \* where each thread stands
    call,         \* locals of the call a thread is executing
    ret,          \* what the step just taken returned to the thread that took it
    rescue,       \* the caller's rescue_points vector of each thread
    nops,         \* operations started so far
    qproc,        \* the IQueryProcessor each thread's query reports to
    crashed,      \* the process was aborted
    succeeded     \* per id, the create_new_column calls that have returned AKU_SUCCESS

vars == <<columns, trees, table_lock, cache, pc, call, ret, rescue, nops, qproc,
          crashed, succeeded>>

NoCall == [op |-> "none"]

\* No call returned in the step.
NoRet == [t \in Threads |-> NoCall]

\* A consumer: the samples put so far, the statuses given to set_error, and
\* limit, the number of the put that returns false (0: put never refuses).
NoQProc == [samples |-> <<>>, errors |-> <<>>, limit |-> 0]

\* ------------------------------------------------- NBTreeExtentsList
\* A tree right after std::make_shared<NBTreeExtentsList>(id, empty, bstore).
\*   data    every <<timestamp, value>> appended, in append order
\*   nbuf    samples of the in-memory level not sealed yet
\*   nsealed blocks sealed so far
\*   ninit   calls of force_init() so far
\*   nclose  calls of close() so far
NBTreeExtentsList(id) ==
    [id |-> id, data |-> <<>>, nbuf |-> 0, nsealed |-> 0, ninit |-> 0, nclose |-> 0]

\* get_roots(): the addresses of the sealed blocks of tree h.
get_roots(h, tr) == [k \in 1..tr.nsealed |-> <<h, k>>]

\* append(ts, value): the level seals when it reaches its capacity.
append_result(tr) == IF tr.nbuf + 1 >= LeafCap THEN "OK_FLUSH_NEEDED" ELSE "OK"

append(tr, ts, value) ==
    IF tr.nbuf + 1 >= LeafCap
    THEN [tr EXCEPT !.data = Append(@, <<ts, value>>), !.nbuf = 0, !.nsealed = @ + 1]
    ELSE [tr EXCEPT !.data = Append(@, <<ts, value>>), !.nbuf = @ + 1]

\* close(): seals the partial level and returns the final roots.
tree_close(tr) ==
    IF tr.nbuf > 0
    THEN [tr EXCEPT !.nbuf = 0, !.nsealed = @ + 1, !.nclose = @ + 1]
    ELSE [tr EXCEPT !.nclose = @ + 1]

force_init(tr) == [tr EXCEPT !.ninit = @ + 1]

\* ------------------------------------------------------------- helpers
Registered == {id \in Ids : columns[id] # NoTree}

\* The ids of S in ascending order: the order in which the columns a
\* behaviour starts with were created.
RECURSIVE SortedSeq(_)
SortedSeq(S) ==
    IF S = {} THEN <<>>
    ELSE LET m == CHOOSE x \in S : \A y \in S : x <= y
         IN <<m>> \o SortedSeq(S \ {m})

Idle(t) == pc[t] = "idle" /\ ~crashed
CanStart(t) == Idle(t) /\ nops < MaxOps

Return(t, r) ==
    /\ pc' = [pc EXCEPT ![t] = "idle"]
    /\ call' = [call EXCEPT ![t] = NoCall]
    /\ ret' = [NoRet EXCEPT ![t] = r]

\* ------------------------------------------------------------- Init
\* The registry starts empty, or with the column of series 1 created by an
\* earlier create_new_column(1).
InitialColumns == {{}, {1}}

Init ==
    /\ \E reg \in InitialColumns :
          LET order == SortedSeq(reg)
              handle(id) == CHOOSE h \in 1..Len(order) : order[h] = id
          IN /\ columns = [id \in Ids |-> IF id \in reg THEN handle(id) ELSE NoTree]
             /\ trees = [h \in 1..Len(order) |-> force_init(NBTreeExtentsList(order[h]))]
    /\ table_lock = NoThread
    /\ cache = [t \in Threads |-> [id \in Ids |-> NoTree]]
    /\ pc = [t \in Threads |-> "idle"]
    /\ call = [t \in Threads |-> NoCall]
    /\ ret = NoRet
    /\ rescue = [t \in Threads |-> <<>>]
    /\ nops = 0
    /\ qproc = [t \in Threads |-> NoQProc]
    /\ crashed = FALSE
    /\ succeeded = [id \in Ids |-> IF columns[id] # NoTree THEN 1 ELSE 0]

\* ------------------------------------- ColumnStore::create_new_column
\* Lines 129-130: the tree is constructed before the lock is requested.
create_new_column_begin(t, id) ==
    /\ CanStart(t)
    /\ nops' = nops + 1
    /\ pc' = [pc EXCEPT ![t] = "cnc_lock"]
    /\ call' = [call EXCEPT ![t] = [op |-> "create_new_column", id |-> id]]
    /\ UNCHANGED <<columns, trees, table_lock, cache, rescue, qproc, crashed, succeeded>>
    /\ ret' = NoRet

\* The calls after thread t has stored tree h at line 136.  A thread that
\* stands at line 139 has released the lock, so nothing orders its coming
\* access to columns_ against this insert: raced records that.
AfterInsert(t, h) ==
    [u \in Threads |->
        IF u = t THEN call[t] @@ [inserted |-> h, raced |-> FALSE]
        ELSE IF pc[u] = "cnc_init" THEN [call[u] EXCEPT !.raced = TRUE]
        ELSE call[u]]

\* create_new_column_locked without the count(id) check of line 133: the
\* new tree is stored whether or not the id has one.
create_new_column_locked_mut(t) ==
    /\ pc[t] = "cnc_lock" /\ ~crashed
    /\ table_lock = NoThread
    /\ LET id == call[t].id IN
       /\ trees' = Append(trees, NBTreeExtentsList(id))
       /\ columns' = [columns EXCEPT ![id] = Len(trees) + 1]
       /\ pc' = [pc EXCEPT ![t] = "cnc_init"]
       /\ call' = AfterInsert(t, Len(trees) + 1)
       /\ ret' = NoRet
    /\ UNCHANGED <<table_lock, cache, rescue, nops, qproc, crashed, succeeded>>

\* Lines 131-138: check-then-insert in one critical section of table_lock_.
create_new_column_locked(t) ==
    /\ pc[t] = "cnc_lock" /\ ~crashed
    /\ table_lock = NoThread
    /\ LET id == call[t].id IN
       IF columns[id] # NoTree
       THEN /\ Return(t, [op |-> "create_new_column", id |-> id,
                          status |-> "AKU_EBAD_ARG", inserted |-> NoTree])
            /\ UNCHANGED <<columns, trees>>
       ELSE /\ trees' = Append(trees, NBTreeExtentsList(id))
            /\ columns' = [columns EXCEPT ![id] = Len(trees) + 1]
            /\ pc' = [pc EXCEPT ![t] = "cnc_init"]
            /\ call' = AfterInsert(t, Len(trees) + 1)
            /\ ret' = NoRet
    /\ UNCHANGED <<table_lock, cache, rescue, nops, qproc, crashed, succeeded>>

\* Another thread stands before an insert into columns_ that nothing orders
\* against an access made without the lock.
InsertPending(t) ==
    \E u \in Threads \ {t} : pc[u] = "cnc_lock" /\ columns[call[u].id] = NoTree

\* The access of line 139 by thread t is not ordered against an insert of
\* another thread.
Racing(t) == InsertPending(t) \/ call[t].raced

\* Lines 139-140: columns_[id] is indexed after the lock was released.  When
\* an insert of another thread runs at the same time the access is a data
\* race and the behaviour is undefined: the lookup finds the entry, or the
\* process is aborted, or the lookup yields another tree of the table, which
\* is force-initialized in place of the caller's.
create_new_column_init(t) ==
    /\ pc[t] = "cnc_init" /\ ~crashed
    /\ \/ /\ LET h == columns[call[t].id] IN
               trees' = [trees EXCEPT ![h] = force_init(@)]
          /\ Return(t, [op |-> "create_new_column", id |-> call[t].id,
                        status |-> "AKU_SUCCESS", inserted |-> call[t].inserted])
          /\ succeeded' = [succeeded EXCEPT ![call[t].id] = @ + 1]
          /\ UNCHANGED crashed
       \/ /\ Racing(t)
          /\ crashed' = TRUE
          /\ UNCHANGED <<trees, pc, call, succeeded>> /\ ret' = NoRet
       \/ /\ Racing(t)
          /\ \E h \in DOMAIN trees \ {columns[call[t].id]} :
                trees' = [trees EXCEPT ![h] = force_init(@)]
          /\ Return(t, [op |-> "create_new_column", id |-> call[t].id,
                        status |-> "AKU_SUCCESS", inserted |-> call[t].inserted])
          /\ succeeded' = [succeeded EXCEPT ![call[t].id] = @ + 1]
          /\ UNCHANGED crashed
    /\ UNCHANGED <<columns, table_lock, cache, rescue, nops, qproc>>

\* --------------------------------------------------- ColumnStore::write
\* The call as made by CStoreSession::write on a cache miss (with &cache_)
\* or directly (with cache_or_null = nullptr).
WriteCall(op, sample, use_cache) ==
    [op |-> op, sample |-> sample, use_cache |-> use_cache, tree |-> NoTree]

\* ColumnStore_write_locked looking the id up with columns_[id] instead of
\* find: a miss leaves a new entry in the table.
ColumnStore_write_locked_mut(t, c) ==
    /\ table_lock = NoThread
    /\ LET id == c.sample.paramid IN
       IF columns[id] # NoTree
       THEN /\ table_lock' = t
            /\ pc' = [pc EXCEPT ![t] = "write_append"]
            /\ call' = [call EXCEPT ![t] = [c EXCEPT !.tree = columns[id]]]
            /\ ret' = NoRet
            /\ UNCHANGED <<columns, trees>>
       ELSE /\ Return(t, [op |-> c.op, sample |-> c.sample,
                          res |-> "FAIL_BAD_ID", tree |-> NoTree, nsealed |-> 0])
            /\ trees' = Append(trees, NBTreeExtentsList(id))
            /\ columns' = [columns EXCEPT ![id] = Len(trees) + 1]
            /\ UNCHANGED table_lock
    /\ UNCHANGED <<cache, rescue, qproc, crashed, succeeded>>

\* Lines 210-215 and 225 for the call c of thread t: lock, find; a miss
\* returns FAIL_BAD_ID, a hit enters tree->append with the lock held.
ColumnStore_write_locked(t, c) ==
    /\ table_lock = NoThread
    /\ LET id == c.sample.paramid IN
       IF columns[id] # NoTree
       THEN /\ table_lock' = t
            /\ pc' = [pc EXCEPT ![t] = "write_append"]
            /\ call' = [call EXCEPT ![t] = [c EXCEPT !.tree = columns[id]]]
            /\ ret' = NoRet
       ELSE /\ Return(t, [op |-> c.op, sample |-> c.sample,
                          res |-> "FAIL_BAD_ID", tree |-> NoTree, nsealed |-> 0])
            /\ UNCHANGED table_lock
    /\ UNCHANGED <<columns, trees, cache, rescue, qproc, crashed, succeeded>>

\* Lines 207-215 and 225: ColumnStore::write called with cache_or_null =
\* nullptr, up to the return of FAIL_BAD_ID or the entry into append.  The
\* payload type is not looked at: float64 is appended whatever the type.
ColumnStore_write(t, sample) ==
    /\ CanStart(t)
    /\ nops' = nops + 1
    /\ ColumnStore_write_locked(t, WriteCall("ColumnStore::write", sample, FALSE))

\* Line 215: tree->append, made with table_lock_ held; the thread goes on to
\* line 216 with the result.  The lock stays held, and appends that sessions
\* make through their caches (line 245) fall before line 218.
ColumnStore_write_append(t) ==
    /\ pc[t] = "write_append" /\ ~crashed
    /\ LET h == call[t].tree
           res == append_result(trees[h])
           tree == append(trees[h], call[t].sample.timestamp, call[t].sample.float64)
       IN /\ trees' = [trees EXCEPT ![h] = tree]
          /\ call' = [call EXCEPT ![t] = call[t] @@ [res |-> res,
                                                     nsealed |-> tree.nsealed]]
    /\ pc' = [pc EXCEPT ![t] = "write_return"]
    /\ ret' = NoRet
    /\ UNCHANGED <<columns, table_lock, cache, rescue, nops, qproc, crashed, succeeded>>

\* ColumnStore_write_return filling the cache by clearing it and storing the
\* one handle, instead of insert.
ColumnStore_write_return_mut(t) ==
    /\ pc[t] = "write_return" /\ ~crashed
    /\ LET h == call[t].tree
           id == call[t].sample.paramid
       IN /\ rescue' = IF call[t].res = "OK_FLUSH_NEEDED"
                       THEN [rescue EXCEPT ![t] = get_roots(h, trees[h])]
                       ELSE rescue
          /\ cache' = IF call[t].use_cache
                      THEN [cache EXCEPT ![t] =
                              [i \in Ids |-> IF i = id THEN h ELSE NoTree]]
                      ELSE cache
          /\ Return(t, [op |-> call[t].op, sample |-> call[t].sample,
                        res |-> call[t].res, tree |-> h,
                        nsealed |-> call[t].nsealed])
    /\ table_lock' = NoThread
    /\ UNCHANGED <<columns, trees, nops, qproc, crashed, succeeded>>

\* Lines 216-223: on OK_FLUSH_NEEDED get_roots() is read from the tree as it
\* is now and swapped into rescue_points, the cache (when given) receives
\* the handle with insert (an existing entry is kept), the result of the
\* append is returned and the lock is released.
ColumnStore_write_return(t) ==
    /\ pc[t] = "write_return" /\ ~crashed
    /\ LET h == call[t].tree
           id == call[t].sample.paramid
       IN /\ rescue' = IF call[t].res = "OK_FLUSH_NEEDED"
                       THEN [rescue EXCEPT ![t] = get_roots(h, trees[h])]
                       ELSE rescue
          /\ cache' = IF call[t].use_cache /\ cache[t][id] = NoTree
                      THEN [cache EXCEPT ![t][id] = h]
                      ELSE cache
          /\ Return(t, [op |-> call[t].op, sample |-> call[t].sample,
                        res |-> call[t].res, tree |-> h,
                        nsealed |-> call[t].nsealed])
    /\ table_lock' = NoThread
    /\ UNCHANGED <<columns, trees, nops, qproc, crashed, succeeded>>

\* ------------------------------------------------- CStoreSession::write
\* CStoreSession_write_bad_value without the type check of line 239: the
\* sample goes on to the registry.
CStoreSession_write_bad_value_mut(t, sample) ==
    /\ CanStart(t)
    /\ sample.type # "FLOAT"
    /\ nops' = nops + 1
    /\ ColumnStore_write_locked(t, WriteCall("CStoreSession::write", sample, TRUE))

\* Lines 239-241: a payload that is not FLOAT is rejected first.
CStoreSession_write_bad_value(t, sample) ==
    /\ CanStart(t)
    /\ sample.type # "FLOAT"
    /\ nops' = nops + 1
    /\ Return(t, [op |-> "CStoreSession::write", sample |-> sample,
                  res |-> "FAIL_BAD_VALUE", tree |-> NoTree, nsealed |-> 0])
    /\ UNCHANGED <<columns, trees, table_lock, cache, rescue, qproc, crashed, succeeded>>

\* Lines 243-245: cache hit, the thread enters append without the lock.
CStoreSession_write_hit(t, sample) ==
    /\ CanStart(t)
    /\ sample.type = "FLOAT"
    /\ cache[t][sample.paramid] # NoTree
    /\ nops' = nops + 1
    /\ pc' = [pc EXCEPT ![t] = "cached_append"]
    /\ call' = [call EXCEPT ![t] = [op |-> "CStoreSession::write", sample |-> sample,
                                    use_cache |-> TRUE,
                                    tree |-> cache[t][sample.paramid]]]
    /\ UNCHANGED <<columns, trees, table_lock, cache, rescue, qproc, crashed, succeeded>>
    /\ ret' = NoRet

\* CStoreSession_write_append taking table_lock_ for the append.
CStoreSession_write_append_mut(t) ==
    /\ pc[t] = "cached_append" /\ ~crashed
    /\ table_lock = NoThread
    /\ LET h == call[t].tree
           res == append_result(trees[h])
           tree == append(trees[h], call[t].sample.timestamp, call[t].sample.float64)
       IN /\ trees' = [trees EXCEPT ![h] = tree]
          /\ Return(t, [op |-> call[t].op, sample |-> call[t].sample,
                        res |-> res, tree |-> h, nsealed |-> tree.nsealed])
    /\ UNCHANGED <<columns, table_lock, cache, rescue, nops, qproc, crashed, succeeded>>

\* Line 245: the cached append completes and its result is returned as is.
CStoreSession_write_append(t) ==
    /\ pc[t] = "cached_append" /\ ~crashed
    /\ LET h == call[t].tree
           res == append_result(trees[h])
           tree == append(trees[h], call[t].sample.timestamp, call[t].sample.float64)
       IN /\ trees' = [trees EXCEPT ![h] = tree]
          /\ Return(t, [op |-> call[t].op, sample |-> call[t].sample,
                        res |-> res, tree |-> h, nsealed |-> tree.nsealed])
    /\ UNCHANGED <<columns, table_lock, cache, rescue, nops, qproc, crashed, succeeded>>

\* Lines 243 and 247-248: cache miss, the registry's write is called with
\* &cache_.
CStoreSession_write_miss(t, sample) ==
    /\ CanStart(t)
    /\ sample.type = "FLOAT"
    /\ cache[t][sample.paramid] = NoTree
    /\ nops' = nops + 1
    /\ ColumnStore_write_locked(t, WriteCall("CStoreSession::write", sample, TRUE))

\* --------------------------------------------------- ColumnStore::close
\* Lines 117-120: the lock is taken and the iteration over columns_ starts;
\* the thread enters close() of the first tree, or returns an empty map.
\* The order in which the loop of line 120 visits the entries is that of the
\* container, which the source does not fix: cur is the entry the loop
\* stands at, todo the entries still to visit.
ColumnStore_close_begin(t) ==
    /\ CanStart(t)
    /\ table_lock = NoThread
    /\ nops' = nops + 1
    /\ IF Registered = {}
       THEN /\ Return(t, [op |-> "ColumnStore::close", result |-> <<>>,
                          closed |-> <<>>, registered |-> {}])
            /\ UNCHANGED table_lock
       ELSE /\ table_lock' = t
            /\ pc' = [pc EXCEPT ![t] = "closing"]
            /\ \E first \in Registered :
                  call' = [call EXCEPT ![t] = [op |-> "ColumnStore::close",
                                               cur |-> first,
                                               todo |-> Registered \ {first},
                                               result |-> <<>>, closed |-> <<>>,
                                               registered |-> Registered]]
            /\ ret' = NoRet
    /\ UNCHANGED <<columns, trees, cache, rescue, qproc, crashed, succeeded>>

\* ColumnStore_close_tree leaving the loop after the first tree.
ColumnStore_close_tree_mut(t) ==
    /\ pc[t] = "closing" /\ ~crashed
    /\ LET id == call[t].cur
           h == columns[id]
           tree == tree_close(trees[h])
           result == [k \in DOMAIN call[t].result \cup {id} |->
                        IF k = id THEN get_roots(h, tree) ELSE call[t].result[k]]
           closed == [k \in DOMAIN call[t].closed \cup {h} |->
                        IF k # h THEN call[t].closed[k]
                        ELSE IF h \in DOMAIN call[t].closed
                             THEN Append(call[t].closed[h], get_roots(h, tree))
                             ELSE <<get_roots(h, tree)>>]
       IN /\ trees' = [trees EXCEPT ![h] = tree]
          /\ Return(t, [op |-> "ColumnStore::close", result |-> result,
                        closed |-> closed, registered |-> call[t].registered])
          /\ table_lock' = NoThread
    /\ UNCHANGED <<columns, cache, rescue, nops, qproc, crashed, succeeded>>

\* Lines 120-125: close() of the current tree completes and its address list
\* is stored under the entry's key; then the next tree, or the return.
ColumnStore_close_tree(t) ==
    /\ pc[t] = "closing" /\ ~crashed
    /\ LET id == call[t].cur
           h == columns[id]
           tree == tree_close(trees[h])
           result == [k \in DOMAIN call[t].result \cup {id} |->
                        IF k = id THEN get_roots(h, tree) ELSE call[t].result[k]]
           closed == [k \in DOMAIN call[t].closed \cup {h} |->
                        IF k # h THEN call[t].closed[k]
                        ELSE IF h \in DOMAIN call[t].closed
                             THEN Append(call[t].closed[h], get_roots(h, tree))
                             ELSE <<get_roots(h, tree)>>]
       IN /\ trees' = [trees EXCEPT ![h] = tree]
          /\ IF call[t].todo = {}
             THEN /\ Return(t, [op |-> "ColumnStore::close", result |-> result,
                                closed |-> closed,
                                registered |-> call[t].registered])
                  /\ table_lock' = NoThread
             ELSE /\ \E nxt \in call[t].todo :
                        call' = [call EXCEPT ![t] = [@ EXCEPT !.cur = nxt,
                                                     !.todo = @ \ {nxt},
                                                     !.result = result,
                                                     !.closed = closed]]
                  /\ UNCHANGED <<pc, table_lock>> /\ ret' = NoRet
    /\ UNCHANGED <<columns, cache, rescue, nops, qproc, crashed, succeeded>>

\* ------------------------------------ ColumnStore::_get_uncommitted_memory
\* Lines 199-201: the lock is taken, total_size is 0 and the iteration over
\* columns_ starts, in the order of the container; with an empty table the
\* call returns 0.
_get_uncommitted_memory_begin(t) ==
    /\ CanStart(t)
    /\ table_lock = NoThread
    /\ nops' = nops + 1
    /\ IF Registered = {}
       THEN /\ Return(t, [op |-> "_get_uncommitted_memory", total_size |-> 0])
            /\ UNCHANGED table_lock
       ELSE /\ table_lock' = t
            /\ pc' = [pc EXCEPT ![t] = "getmem"]
            /\ ret' = NoRet
            /\ \E first \in Registered :
                  call' = [call EXCEPT ![t] = [op |-> "_get_uncommitted_memory",
                                               cur |-> first,
                                               todo |-> Registered \ {first},
                                               total_size |-> 0]]
    /\ UNCHANGED <<columns, trees, cache, rescue, qproc, crashed, succeeded>>

\* Lines 201-204: _get_uncommitted_size() of the current tree, as the tree is
\* now, is added to total_size; then the next tree, or the return.
_get_uncommitted_memory_tree(t) ==
    /\ pc[t] = "getmem" /\ ~crashed
    /\ LET total_size == call[t].total_size + trees[columns[call[t].cur]].nbuf
       IN IF call[t].todo = {}
          THEN /\ Return(t, [op |-> "_get_uncommitted_memory",
                             total_size |-> total_size])
               /\ table_lock' = NoThread
          ELSE /\ \E nxt \in call[t].todo :
                     call' = [call EXCEPT ![t] = [@ EXCEPT !.cur = nxt,
                                                  !.todo = @ \ {nxt},
                                                  !.total_size = total_size]]
               /\ UNCHANGED <<pc, table_lock>> /\ ret' = NoRet
    /\ UNCHANGED <<columns, trees, cache, rescue, nops, qproc, crashed, succeeded>>

\* ------------------------------------------------------ NBTreeIterator
\* Ids a request may select; MaxId + 1 is an id no column is created for.
QIds == 1..(MaxId + 1)

Min(a, b) == IF a < b THEN a ELSE b

InRange(e, begin, end) == begin <= e[1] /\ e[1] < end

\* search(begin, end) with begin <= end: the samples of the half-open range
\* in the order the tree holds them; a snapshot taken at the call.
search_data(tr, begin, end) ==
    SelectSeq(tr.data, LAMBDA e : InRange(e, begin, end))

\* How an inner iterator hands out its samples:
\*   drain  as many as fit; NO_DATA together with its last samples
\*   lazy   as many as fit with SUCCESS; NO_DATA only with nothing left
\*   short  one sample per call with SUCCESS; NO_DATA only with nothing left
\*   fail   the block store is unavailable
IterStyles == {"drain", "lazy", "short", "fail"}

NBTreeIterator(id, tr, begin, end, style) ==
    [series |-> id, data |-> search_data(tr, begin, end), style |-> style]

\* NBTreeIterator::read(destts, destval, size).
NBTreeIterator_read(it, size) ==
    LET len == Len(it.data)
        n == CASE it.style = "fail" -> 0
               [] it.style = "short" -> Min(1, Min(size, len))
               [] OTHER -> Min(size, len)
        status == CASE it.style = "fail" -> "AKU_EUNAVAILABLE"
                    [] it.style = "drain" ->
                         IF len <= size THEN "AKU_ENO_DATA" ELSE "AKU_SUCCESS"
                    [] OTHER -> IF n = 0 THEN "AKU_ENO_DATA" ELSE "AKU_SUCCESS"
    IN [status |-> status, out |-> SubSeq(it.data, 1, n),
        it |-> [it EXCEPT !.data = SubSeq(@, n + 1, len)]]

\* ------------------------------------------------------- ChainIterator
\* Lines 58-63; pos_ counts from 0 as in the source.
ChainIterator(ids, it) == [iters_ |-> it, ids_ |-> ids, pos_ |-> 0]

\* Lines 98-103: one sample of the output; from is the series of the tree
\* the sample was read from, kept for the proofs only.
ToSample(curr, e, series) ==
    [paramid |-> curr, timestamp |-> e[1], float64 |-> e[2], type |-> "FLOAT",
     from |-> series]

\* Lines 74-96: the while loop, one inner read per iteration.
RECURSIVE ChainIterator_loop(_, _, _, _)
ChainIterator_loop(chain, size, status, out) ==
    IF chain.pos_ < Len(chain.iters_)
    THEN LET inner == chain.iters_[chain.pos_ + 1]
             curr == chain.ids_[chain.pos_ + 1]
             r == NBTreeIterator_read(inner, size)
             out1 == out \o [i \in 1..Len(r.out) |->
                               ToSample(curr, r.out[i], inner.series)]
             size1 == size - Len(r.out)
             read1 == [chain EXCEPT !.iters_[chain.pos_ + 1] = r.it]
             next1 == [read1 EXCEPT !.pos_ = @ + 1]
         IN IF size1 = 0
            THEN [status |-> r.status, out |-> out1, chain |-> read1]
            ELSE IF r.status = "AKU_ENO_DATA"
            THEN ChainIterator_loop(next1, size1, r.status, out1)
            ELSE IF r.status # "AKU_SUCCESS"
            THEN [status |-> r.status, out |-> out1, chain |-> next1]
            ELSE ChainIterator_loop(next1, size1, r.status, out1)
    ELSE [status |-> status, out |-> out, chain |-> chain]

\* Lines 65-105: ChainIterator::read(dest, size).
ChainIterator_read(chain, size) ==
    ChainIterator_loop(chain, size, "AKU_ENO_DATA", <<>>)

\* ------------------------------------------------------ IQueryProcessor
set_error(q, status) == [q EXCEPT !.errors = Append(@, status)]

\* put(sample): the consumer takes the sample and answers whether it wants more.
put(q, sample) ==
    [q |-> [q EXCEPT !.samples = Append(@, sample)],
     ok |-> Len(q.samples) + 1 # q.limit]

\* --------------------------------------------------- ColumnStore::query
OrderBy == {"SERIES", "TIME"}

\* The sequences of at most n ids of S that name no id twice.
RECURSIVE SeqsUpTo(_, _)
SeqsUpTo(S, n) ==
    IF n = 0 THEN {<<>>}
    ELSE LET shorter == SeqsUpTo(S, n - 1)
             fresh(s) == {y \in S : \A i \in 1..Len(s) : s[i] # y}
         IN shorter \cup UNION {{Append(s, x) : x \in fresh(s)} : s \in shorter}

\* group_by.transient_map is consulted for its keys only.
GroupMaps == {QIds, {1}}
GroupBys == {[enabled |-> FALSE, transient_map |-> {}]}
            \cup {[enabled |-> TRUE, transient_map |-> K] : K \in GroupMaps}

\* select.begin and select.end: every stored sample, all but the first of
\* each series, and the samples a series holds beyond dest_size.
Ranges == {<<0, MaxLen + 1>>, <<2, MaxLen + 1>>, <<DestSize + 1, MaxLen + 1>>}

ReshapeRequests ==
    {[select |-> [ids |-> ids, begin |-> r[1], end |-> r[2]],
      order_by |-> o, group_by |-> g] :
        ids \in SeqsUpTo(QIds, MaxSelect), r \in Ranges, o \in OrderBy, g \in GroupBys}

\* Lines 145-146: the call has been entered, no id looked up yet.
\*   next      index into select.ids of the id the for loop looks up next
\*   iter      "null" until line 161 resets it to a ChainIterator
\*   reads     calls of iter->read so far
\*   found     the range iterators as search returned them, in lookup order
\*   missing   the ids the lookups did not find
QueryCall(req) ==
    [op |-> "ColumnStore::query", req |-> req, next |-> 1, iters |-> <<>>,
     iter |-> "null", chain |-> ChainIterator(<<>>, <<>>), reads |-> 0,
     found |-> <<>>, missing |-> <<>>]

QueryReturn(t, c, refused) ==
    Return(t, [op |-> "ColumnStore::query", req |-> c.req, reads |-> c.reads,
               found |-> c.found, missing |-> c.missing,
               refused |-> refused])

\* The requests made while other registry operations run: one series, the
\* whole range, no group-by.
RegistryRequests ==
    {r \in ReshapeRequests :
        /\ ~r.group_by.enabled
        /\ r.select.begin = 0 /\ Len(r.select.ids) = 1}

\* Lines 144-146, also reached through CStoreSession::query (lines 251-253):
\* the call is entered with a request and a consumer that has received
\* nothing and never refuses.
ColumnStore_query(t, req) ==
    /\ CanStart(t)
    /\ nops' = nops + 1
    /\ pc' = [pc EXCEPT ![t] = "query_lookup"]
    /\ call' = [call EXCEPT ![t] = QueryCall(req)]
    /\ qproc' = [qproc EXCEPT ![t] = NoQProc]
    /\ ret' = NoRet
    /\ UNCHANGED <<columns, trees, table_lock, cache, rescue, crashed, succeeded>>

\* Lines 147-156: one iteration of the for loop; the lock is taken and
\* released inside the iteration.
ColumnStore_query_lookup(t) ==
    /\ pc[t] = "query_lookup" /\ ~crashed
    /\ call[t].next <= Len(call[t].req.select.ids)
    /\ table_lock = NoThread
    /\ LET c == call[t]
           id == c.req.select.ids[c.next]
       IN IF id \in Ids /\ columns[id] # NoTree
          THEN \E style \in IterStyles :
                 LET iter == NBTreeIterator(id, trees[columns[id]],
                                            c.req.select.begin, c.req.select.end, style)
                 IN /\ call' = [call EXCEPT ![t] =
                          [c EXCEPT !.next = @ + 1,
                                    !.iters = Append(@, iter),
                                    !.found = Append(@, iter)]]
                    /\ UNCHANGED qproc
          ELSE /\ qproc' = [qproc EXCEPT ![t] = set_error(@, "AKU_ENOT_FOUND")]
               /\ call' = [call EXCEPT ![t] = [c EXCEPT !.next = @ + 1,
                                                        !.missing = Append(@, id)]]
    /\ UNCHANGED <<columns, trees, table_lock, cache, pc, rescue, nops, crashed, succeeded>>
    /\ ret' = NoRet

\* Lines 158-170: the row iterator is built for order-by-series; for
\* order-by-time the error is reported and iter stays null.
ColumnStore_query_build(t) ==
    /\ pc[t] = "query_lookup" /\ ~crashed
    /\ call[t].next > Len(call[t].req.select.ids)
    /\ LET c == call[t] IN
       IF c.req.order_by = "SERIES"
       THEN /\ call' = [call EXCEPT ![t] =
                  [c EXCEPT !.iter = "chain",
                            !.chain = ChainIterator(c.req.select.ids, c.iters),
                            !.iters = <<>>]]
            /\ UNCHANGED qproc
       ELSE /\ qproc' = [qproc EXCEPT ![t] = set_error(@, "AKU_ENOT_IMPLEMENTED")]
            /\ UNCHANGED call
    /\ pc' = [pc EXCEPT ![t] = "query_read"]
    /\ UNCHANGED <<columns, trees, table_lock, cache, rescue, nops, crashed, succeeded>>
    /\ ret' = NoRet

\* group_by_check looking at the first sample of the batch only.
group_by_check_mut(map, dest, ix) ==
    IF ix > Len(dest) THEN TRUE ELSE dest[ix].paramid \in map

\* Lines 180-187: the group-by check of a batch; TRUE when every id is a key.
RECURSIVE group_by_check(_, _, _)
group_by_check(map, dest, ix) ==
    IF ix > Len(dest) THEN TRUE
    ELSE IF dest[ix].paramid \notin map THEN FALSE
    ELSE group_by_check(map, dest, ix + 1)

\* put_loop without the return of line 191: the answer of put is ignored.
RECURSIVE put_loop_mut(_, _, _)
put_loop_mut(q, dest, ix) ==
    IF ix > Len(dest) THEN [q |-> q, refused |-> FALSE]
    ELSE put_loop_mut(put(q, dest[ix]).q, dest, ix + 1)

\* Lines 189-193: the batch is put sample by sample until put refuses.
RECURSIVE put_loop(_, _, _)
put_loop(q, dest, ix) ==
    IF ix > Len(dest) THEN [q |-> q, refused |-> FALSE]
    ELSE LET p == put(q, dest[ix])
         IN IF ~p.ok THEN [q |-> p.q, refused |-> TRUE]
            ELSE put_loop(p.q, dest, ix + 1)

\* query_batch without the return of line 177: after set_error the batch
\* is handed to the consumer all the same.
query_batch_mut(t, c, status, dest) ==
    IF status # "AKU_SUCCESS" /\ status # "AKU_ENO_DATA"
    THEN /\ qproc' = [qproc EXCEPT ![t] =
                         put_loop(set_error(@, status), dest, 1).q]
         /\ QueryReturn(t, c, FALSE)
    ELSE IF c.req.group_by.enabled
    THEN IF ~group_by_check(c.req.group_by.transient_map, dest, 1)
         THEN /\ qproc' = [qproc EXCEPT ![t] = set_error(@, "AKU_EBAD_DATA")]
              /\ QueryReturn(t, c, FALSE)
         ELSE /\ UNCHANGED qproc
              /\ IF status = "AKU_SUCCESS"
                 THEN call' = [call EXCEPT ![t] = c] /\ UNCHANGED pc /\ ret' = NoRet
                 ELSE QueryReturn(t, c, FALSE)
    ELSE LET p == put_loop(qproc[t], dest, 1)
         IN /\ qproc' = [qproc EXCEPT ![t] = p.q]
            /\ IF p.refused
               THEN QueryReturn(t, c, TRUE)
               ELSE IF status = "AKU_SUCCESS"
               THEN call' = [call EXCEPT ![t] = c] /\ UNCHANGED pc /\ ret' = NoRet
               ELSE QueryReturn(t, c, FALSE)

\* Lines 171-195: one iteration of the while loop over a read batch.
query_batch(t, c, status, dest) ==
    IF status # "AKU_SUCCESS" /\ status # "AKU_ENO_DATA"
    THEN /\ qproc' = [qproc EXCEPT ![t] = set_error(@, status)]
         /\ QueryReturn(t, c, FALSE)
    ELSE IF c.req.group_by.enabled
    THEN IF ~group_by_check(c.req.group_by.transient_map, dest, 1)
         THEN /\ qproc' = [qproc EXCEPT ![t] = set_error(@, "AKU_EBAD_DATA")]
              /\ QueryReturn(t, c, FALSE)
         ELSE /\ UNCHANGED qproc
              /\ IF status = "AKU_SUCCESS"
                 THEN call' = [call EXCEPT ![t] = c] /\ UNCHANGED pc /\ ret' = NoRet
                 ELSE QueryReturn(t, c, FALSE)
    ELSE LET p == put_loop(qproc[t], dest, 1)
         IN /\ qproc' = [qproc EXCEPT ![t] = p.q]
            /\ IF p.refused
               THEN QueryReturn(t, c, TRUE)
               ELSE IF status = "AKU_SUCCESS"
               THEN call' = [call EXCEPT ![t] = c] /\ UNCHANGED pc /\ ret' = NoRet
               ELSE QueryReturn(t, c, FALSE)

\* Line 173 with the ChainIterator of line 161.
ColumnStore_query_read(t) ==
    /\ pc[t] = "query_read" /\ ~crashed
    /\ call[t].iter = "chain"
    /\ LET r == ChainIterator_read(call[t].chain, DestSize)
           c == [call[t] EXCEPT !.chain = r.chain, !.reads = @ + 1]
       IN query_batch(t, c, r.status, r.out)
    /\ UNCHANGED <<columns, trees, table_lock, cache, rescue, nops, crashed, succeeded>>

\* What resize leaves in dest: a value-initialized aku_Sample.
ZeroSample == [paramid |-> 0, timestamp |-> 0, float64 |-> 0, type |-> "NONE",
               from |-> 0]

\* Line 173 after the else branch of line 162: read is called through the
\* null unique_ptr.  The behaviour is undefined: the process is aborted, or
\* the call comes back with some status other than success and some size,
\* dest being left as resize initialized it.
ColumnStore_query_read_null(t) ==
    /\ pc[t] = "query_read" /\ ~crashed
    /\ call[t].iter = "null"
    /\ \/ /\ crashed' = TRUE
          /\ call' = [call EXCEPT ![t] = [@ EXCEPT !.reads = @ + 1]]
          /\ UNCHANGED <<pc, qproc>> /\ ret' = NoRet
       \/ /\ \E status \in {"AKU_ENO_DATA", "AKU_EUNAVAILABLE"}, size \in 0..1 :
               query_batch(t, [call[t] EXCEPT !.reads = @ + 1], status,
                           [i \in 1..size |-> ZeroSample])
          /\ UNCHANGED crashed
    /\ UNCHANGED <<columns, trees, table_lock, cache, rescue, nops, succeeded>>

\* ------------------------------------------------------------- Next
Next ==
    \E t \in Threads :
        \/ \E id \in Ids : create_new_column_begin(t, id)
        \/ create_new_column_locked(t)
        \/ create_new_column_init(t)
        \/ \E s \in Samples : ColumnStore_write(t, s)
        \/ ColumnStore_write_append(t)
        \/ ColumnStore_write_return(t)
        \/ \E s \in Samples : CStoreSession_write_bad_value(t, s)
        \/ \E s \in Samples : CStoreSession_write_hit(t, s)
        \/ CStoreSession_write_append(t)
        \/ \E s \in Samples : CStoreSession_write_miss(t, s)
        \/ ColumnStore_close_begin(t)
        \/ ColumnStore_close_tree(t)
        \/ _get_uncommitted_memory_begin(t)
        \/ _get_uncommitted_memory_tree(t)
        \/ \E req \in RegistryRequests : ColumnStore_query(t, req)
        \/ ColumnStore_query_lookup(t)
        \/ ColumnStore_query_build(t)
        \/ ColumnStore_query_read(t)
        \/ ColumnStore_query_read_null(t)

Spec == Init /\ [][Next]_vars

\* ----------------------------------------------------- query behaviours
\* A store that holds an initialized tree for every id that has a column,
\* series 1 with dest_size samples and each further series with one more
\* (MaxLen at most),
\* the samples being <<1, 1>> .. <<n, 1>>, and a thread that has entered
\* ColumnStore::query with a request and a consumer.
SeriesData(n) == [k \in 1..n |-> <<k, 1>>]

StoredLen(id) == Min(MaxLen, DestSize + id - 1)

StoredTree(id, n) ==
    [id |-> id, data |-> SeriesData(n), nbuf |-> n % LeafCap,
     nsealed |-> n \div LeafCap, ninit |-> 1, nclose |-> 0]

QueryThread == 1

\* The ids that have a column when the query starts: all of Ids, or all but 1.
QueryColumns == {Ids, Ids \ {1}}

QueryInit ==
    /\ \E reg \in QueryColumns :
          LET order == SortedSeq(reg)
              handle(id) == CHOOSE h \in 1..Len(order) : order[h] = id
          IN /\ columns = [id \in Ids |-> IF id \in reg THEN handle(id) ELSE NoTree]
             /\ trees = [h \in 1..Len(order) |->
                            StoredTree(order[h], StoredLen(order[h]))]
    /\ table_lock = NoThread
    /\ cache = [t \in Threads |-> [id \in Ids |-> NoTree]]
    /\ pc = [t \in Threads |-> IF t = QueryThread THEN "query_lookup" ELSE "idle"]
    /\ \E req \in ReshapeRequests, limit \in 0..MaxLimit :
          /\ req.group_by.enabled => limit = 0
          /\ call = [t \in Threads |-> IF t = QueryThread THEN QueryCall(req) ELSE NoCall]
          /\ qproc = [t \in Threads |-> IF t = QueryThread
                                        THEN [NoQProc EXCEPT !.limit = limit]
                                        ELSE NoQProc]
    /\ ret = NoRet
    /\ rescue = [t \in Threads |-> <<>>]
    /\ nops = 0
    /\ crashed = FALSE
    /\ succeeded = [id \in Ids |-> IF columns[id] # NoTree THEN 1 ELSE 0]

QueryNext ==
    \E t \in Threads :
        \/ ColumnStore_query_lookup(t)
        \/ ColumnStore_query_build(t)
        \/ ColumnStore_query_read(t)
        \/ ColumnStore_query_read_null(t)

QuerySpec == QueryInit /\ [][QueryNext]_vars

\* The calling thread keeps running: a step of the query that can be taken
\* is taken.
QueryLiveSpec == QueryInit /\ [][QueryNext]_vars /\ WF_vars(QueryNext)

\* ------------------------------------- queries among registry operations
\* A thread has entered ColumnStore::query for a request by series over the
\* whole range; every thread, that one after its return included, may then
\* call query again, create columns, write, close and ask for the
\* uncommitted memory.
ConcurrentRequests ==
    {r \in ReshapeRequests :
        /\ r.order_by = "SERIES" /\ ~r.group_by.enabled
        /\ r.select.begin = 0 /\ r.select.ids # <<>>}

ConcurrentQueryInit ==
    /\ \E reg \in InitialColumns :
          LET order == SortedSeq(reg)
              handle(id) == CHOOSE h \in 1..Len(order) : order[h] = id
          IN /\ columns = [id \in Ids |-> IF id \in reg THEN handle(id) ELSE NoTree]
             /\ trees = [h \in 1..Len(order) |-> force_init(NBTreeExtentsList(order[h]))]
    /\ table_lock = NoThread
    /\ cache = [t \in Threads |-> [id \in Ids |-> NoTree]]
    /\ pc = [t \in Threads |-> IF t = QueryThread THEN "query_lookup" ELSE "idle"]
    /\ \E req \in ConcurrentRequests :
          call = [t \in Threads |-> IF t = QueryThread THEN QueryCall(req) ELSE NoCall]
    /\ qproc = [t \in Threads |-> NoQProc]
    /\ ret = NoRet
    /\ rescue = [t \in Threads |-> <<>>]
    /\ nops = 1
    /\ crashed = FALSE
    /\ succeeded = [id \in Ids |-> IF columns[id] # NoTree THEN 1 ELSE 0]

ConcurrentQueryNext ==
    \E t \in Threads :
        \/ \E req \in RegistryRequests : ColumnStore_query(t, req)
        \/ ColumnStore_query_lookup(t)
        \/ ColumnStore_query_build(t)
        \/ ColumnStore_query_read(t)
        \/ ColumnStore_query_read_null(t)
        \/ \E id \in Ids : create_new_column_begin(t, id)
        \/ create_new_column_locked(t)
        \/ create_new_column_init(t)
        \/ \E s \in Samples : ColumnStore_write(t, s)
        \/ ColumnStore_write_append(t)
        \/ ColumnStore_write_return(t)
        \/ \E s \in Samples : CStoreSession_write_bad_value(t, s)
        \/ \E s \in Samples : CStoreSession_write_hit(t, s)
        \/ CStoreSession_write_append(t)
        \/ \E s \in Samples : CStoreSession_write_miss(t, s)
        \/ ColumnStore_close_begin(t)
        \/ ColumnStore_close_tree(t)
        \/ _get_uncommitted_memory_begin(t)
        \/ _get_uncommitted_memory_tree(t)

ConcurrentQuerySpec == ConcurrentQueryInit /\ [][ConcurrentQueryNext]_vars

TypeOK ==
    /\ table_lock \in Threads \cup {NoThread}
    /\ \A id \in Ids : columns[id] \in 0..Len(trees)

\* ================================================================ claims

IsWrite(r) == r.op = "CStoreSession::write" \/ r.op = "ColumnStore::write"

Created(t, id, status) ==
    /\ ret[t].op = "create_new_column"
    /\ ret[t].id = id
    /\ ret[t].status = status

\* C1: under every interleaving of create_new_column calls the registry has
\* stored at most one tree per id and that tree stays stored under its id;
\* a call returns AKU_SUCCESS only for the tree it inserted itself, every
\* other call on the id returns AKU_EBAD_ARG, and at most one call has
\* returned AKU_SUCCESS for an id.
C1_CreationUnique ==
    /\ \A id \in Ids : Cardinality({h \in DOMAIN trees : trees[h].id = id}) <= 1
    /\ \A h \in DOMAIN trees : columns[trees[h].id] = h
    /\ \A t \in Threads :
          ret[t].op = "create_new_column" =>
             \/ /\ ret[t].status = "AKU_SUCCESS"
                /\ ret[t].inserted # NoTree
                /\ columns[ret[t].id] = ret[t].inserted
                /\ trees[ret[t].inserted].id = ret[t].id
             \/ /\ ret[t].status = "AKU_EBAD_ARG"
                /\ ret[t].inserted = NoTree
                /\ columns[ret[t].id] # NoTree
    /\ \A id \in Ids : succeeded[id] <= 1

\* Two calls of create_new_column were made for an id that had no column at
\* the start: one has returned AKU_SUCCESS and the other returns
\* AKU_EBAD_ARG.
C1_Witness ==
    \E t \in Threads, id \in Ids :
        /\ \A reg \in InitialColumns : id \notin reg
        /\ succeeded[id] = 1
        /\ Created(t, id, "AKU_EBAD_ARG")

\* C2: whenever CStoreSession::write has returned OK_FLUSH_NEEDED, on either
\* path, the caller's rescue_points vector holds the roots of the tree that
\* was appended to, as get_roots gave them at or after that append.
C2_RescueOnFlush ==
    \A t \in Threads :
        ret[t].op = "CStoreSession::write" /\ ret[t].res = "OK_FLUSH_NEEDED" =>
            /\ Len(rescue[t]) >= ret[t].nsealed
            /\ rescue[t] = [k \in 1..Len(rescue[t]) |-> <<ret[t].tree, k>>]

\* A query of thread t has returned.
Queried(t) == pc[t] = "idle" /\ ret[t].op = "ColumnStore::query"

\* The output of the range iterators of a query, one after the other, each
\* sample carrying the id of the series it comes from.
RECURSIVE Expected(_)
Expected(found) ==
    IF found = <<>> THEN <<>>
    ELSE LET it == Head(found)
         IN [i \in 1..Len(it.data) |-> ToSample(it.series, it.data[i], it.series)]
            \o Expected(Tail(found))

Styles(found) == {found[i].style : i \in DOMAIN found}

NotFounds(missing) == [i \in 1..Len(missing) |-> "AKU_ENOT_FOUND"]

\* C3: a query by series without group-by whose select.ids has registered
\* and unregistered ids reports AKU_ENOT_FOUND once per unregistered id and
\* delivers the samples of every registered id, each with the id of the
\* series it was read from as paramid.  (Stated for inner iterators that
\* hand out all that fits and report NO_DATA on an empty read, and for a
\* consumer that never refuses.)
C3_UnknownIdQuery ==
    \A t \in Threads :
        ( /\ Queried(t)
          /\ ret[t].req.order_by = "SERIES"
          /\ ~ret[t].req.group_by.enabled
          /\ qproc[t].limit = 0
          /\ ret[t].missing # <<>> /\ ret[t].found # <<>>
          /\ Styles(ret[t].found) = {"lazy"} )
        => /\ qproc[t].errors = NotFounds(ret[t].missing)
           /\ Len(qproc[t].samples) = Len(Expected(ret[t].found))
           /\ \A i \in DOMAIN qproc[t].samples :
                 /\ qproc[t].samples[i].from = Expected(ret[t].found)[i].from
                 /\ qproc[t].samples[i].paramid = qproc[t].samples[i].from

\* C4: a query with order_by = TIME reports AKU_ENOT_IMPLEMENTED and returns;
\* read is never called on a row iterator and nothing is put.
C4_OrderByTime ==
    \A t \in Threads :
        /\ (call[t].op = "ColumnStore::query" /\ call[t].req.order_by = "TIME")
              => call[t].reads = 0 /\ ~crashed
        /\ (Queried(t) /\ ret[t].req.order_by = "TIME")
              => /\ ret[t].reads = 0
                 /\ qproc[t].samples = <<>>
                 /\ qproc[t].errors = Append(NotFounds(ret[t].missing),
                                             "AKU_ENOT_IMPLEMENTED")

\* C5: a query by series without group-by whose ids are all registered, to a
\* consumer that never refuses, has put exactly the outputs of the trees'
\* range iterators, in select.ids order, each sample tagged with its id,
\* whatever the sizes of the outputs relative to the batch size.  (Stated
\* for inner iterators that hand out all that fits.)
C5_SeriesOrder ==
    \A t \in Threads :
        ( /\ Queried(t)
          /\ ret[t].req.order_by = "SERIES"
          /\ ~ret[t].req.group_by.enabled
          /\ qproc[t].limit = 0
          /\ ret[t].missing = <<>>
          /\ Styles(ret[t].found) \subseteq {"drain", "lazy"} )
        => /\ qproc[t].samples = Expected(ret[t].found)
           /\ qproc[t].errors = <<>>

\* Statuses set_error has received before the read loop of a query starts.
ErrorsBeforeLoop(r) ==
    IF r.req.order_by = "TIME"
    THEN Append(NotFounds(r.missing), "AKU_ENOT_IMPLEMENTED")
    ELSE NotFounds(r.missing)

\* C6: once put has returned false on the k-th sample the query has
\* returned: no further sample is put and set_error is not called for the
\* stop.
C6_BackPressure ==
    \A t \in Threads :
        qproc[t].limit > 0 =>
            /\ Len(qproc[t].samples) <= qproc[t].limit
            /\ Len(qproc[t].samples) = qproc[t].limit =>
                  /\ Queried(t)
                  /\ ret[t].refused
                  /\ qproc[t].errors = ErrorsBeforeLoop(ret[t])

\* A consumer refused the second sample of a query that had more to deliver.
C6_Witness ==
    \E t \in Threads :
        /\ Queried(t) /\ ret[t].refused
        /\ ret[t].req.order_by = "SERIES"
        /\ qproc[t].limit = 2 /\ Len(qproc[t].samples) = 2
        /\ Len(Expected(ret[t].found)) > 2

\* The tree a thread is inside an append or close of, NoTree if none.
MutatingTree(t) ==
    CASE pc[t] \in {"write_append", "cached_append"} -> call[t].tree
      [] pc[t] = "closing" -> columns[call[t].cur]
      [] OTHER -> NoTree

\* C7: no two threads are inside append or close of one tree at a time.
C7_NoConcurrentMutation ==
    \A t, u \in Threads :
        t # u /\ MutatingTree(t) # NoTree => MutatingTree(t) # MutatingTree(u)

\* Thread t makes, in this step, a CStoreSession::write call of a sample
\* whose payload is not FLOAT.
BadValueCall(t) ==
    /\ pc[t] = "idle" /\ nops' = nops + 1
    /\ \/ /\ pc'[t] = "idle"
          /\ ret'[t].op = "CStoreSession::write"
          /\ ret'[t].sample.type # "FLOAT"
       \/ /\ pc'[t] # "idle"
          /\ call'[t].op = "CStoreSession::write"
          /\ call'[t].sample.type # "FLOAT"

\* C8: CStoreSession::write of a sample that is not FLOAT returns
\* FAIL_BAD_VALUE at once and leaves the trees, the session caches, the
\* table, rescue_points and the table lock as they were.
C8_BadValue ==
    /\ [](\A t \in Threads :
            ret[t].op = "CStoreSession::write" /\ ret[t].sample.type # "FLOAT"
               => ret[t].res = "FAIL_BAD_VALUE")
    /\ [][\A t \in Threads :
            BadValueCall(t) =>
               /\ pc'[t] = "idle"
               /\ ret'[t].res = "FAIL_BAD_VALUE"
               /\ UNCHANGED <<columns, trees, cache, rescue, table_lock>>]_vars

\* A session was refused a sample that is not FLOAT for an id it has cached.
C8_Witness ==
    \E t \in Threads :
        /\ pc[t] = "idle"
        /\ ret[t].op = "CStoreSession::write"
        /\ ret[t].res = "FAIL_BAD_VALUE"
        /\ ret[t].sample.type # "FLOAT"
        /\ cache[t][ret[t].sample.paramid] # NoTree
        /\ trees[cache[t][ret[t].sample.paramid]].data # <<>>

\* Thread t calls, in this step, write with a FLOAT sample that misses the
\* session cache (if any) and whose id has no column when the table is
\* looked up.
BadIdCall(t) ==
    /\ pc[t] = "idle" /\ nops' = nops + 1
    /\ \/ /\ pc'[t] = "idle"
          /\ IsWrite(ret'[t])
          /\ ret'[t].sample.type = "FLOAT"
          /\ columns[ret'[t].sample.paramid] = NoTree
       \/ /\ pc'[t] # "idle"
          /\ IsWrite(call'[t])
          /\ call'[t].sample.type = "FLOAT"
          /\ columns[call'[t].sample.paramid] = NoTree

\* C9: the registry's write of a FLOAT sample, called directly or by a
\* session on a cache miss, that finds no column for the id returns
\* FAIL_BAD_ID and leaves the trees, the table, the session caches and
\* rescue_points as they were.
C9_BadId ==
    [][\A t \in Threads :
          BadIdCall(t) =>
             /\ pc'[t] = "idle"
             /\ ret'[t].res = "FAIL_BAD_ID"
             /\ UNCHANGED <<columns, trees, cache, rescue, table_lock>>]_vars

\* A session write missed its cache and the registry, while the registry
\* held a tree with samples for another id.
C9_Witness ==
    \E t \in Threads :
        /\ pc[t] = "idle"
        /\ ret[t].op = "CStoreSession::write"
        /\ ret[t].res = "FAIL_BAD_ID"
        /\ ret[t].sample.type = "FLOAT"
        /\ columns[ret[t].sample.paramid] = NoTree
        /\ \E id \in Registered : trees[columns[id]].data # <<>>

\* C10: ColumnStore::close holds the table lock while it closes the trees;
\* it has called close() once on every tree of the table, and the keys of
\* the map it returns are the ids registered then, each with the address
\* list the close() of its tree returned.
C10_Close ==
    \A t \in Threads :
        /\ pc[t] = "closing" =>
              table_lock = t /\ call[t].registered = Registered
        /\ ret[t].op = "ColumnStore::close" =>
              LET r == ret[t] IN
              /\ DOMAIN r.result = r.registered
              /\ DOMAIN r.closed = {columns[id] : id \in r.registered}
              /\ \A id \in r.registered :
                    r.closed[columns[id]] = <<r.result[id]>>

\* A close returned the roots of two trees, one of them with a sealed block.
C10_Witness ==
    \E t \in Threads :
        /\ pc[t] = "idle"
        /\ ret[t].op = "ColumnStore::close"
        /\ Cardinality(ret[t].registered) = 2
        /\ \E id \in ret[t].registered : ret[t].result[id] # <<>>

\* Thread t is about to call read on the ChainIterator of its query.
Reading(t) == pc[t] = "query_read" /\ call[t].iter = "chain" /\ ~crashed

\* C11: whenever ChainIterator::read returns AKU_ENO_DATA, no inner iterator
\* at or after the position the chain is left at has unread samples, also
\* when a non-last inner iterator reports NO_DATA on the read that fills the
\* remaining capacity exactly.
C11_NoDataMeansDrained ==
    \A t \in Threads :
        Reading(t) =>
            LET r == ChainIterator_read(call[t].chain, DestSize)
            IN r.status = "AKU_ENO_DATA" =>
                  \A i \in DOMAIN r.chain.iters_ :
                      i > r.chain.pos_ => r.chain.iters_[i].data = <<>>

\* C15: ChainIterator::read leaves an inner iterator behind only after that
\* iterator has returned NO_DATA: every iterator before the position a read
\* leaves the chain at has handed out all its samples (an iterator that
\* reported an error aside, which ends the read).
C15_AdvanceAfterNoData ==
    \A t \in Threads :
        Reading(t) =>
            LET r == ChainIterator_read(call[t].chain, DestSize)
            IN \A i \in DOMAIN r.chain.iters_ :
                  i <= r.chain.pos_ =>
                     \/ r.chain.iters_[i].data = <<>>
                     \/ r.chain.iters_[i].style = "fail"

\* Thread t takes a step of its query in this step.
QueryStep(t) == call'[t] # call[t] \/ pc'[t] # pc[t]

LastError(q) == q.errors[Len(q.errors)]

\* C16: a query with group_by.enabled never calls put; every sample of a
\* batch is looked up in transient_map, and a batch with a sample whose id
\* is not a key makes the query call set_error(AKU_EBAD_DATA) and return
\* with no further batch read, while a batch whose ids are all keys
\* reports nothing.
C16_GroupBy ==
    /\ [](\A t \in Threads :
            /\ (call[t].op = "ColumnStore::query" /\ call[t].req.group_by.enabled)
                  => qproc[t].samples = <<>>
            /\ (Queried(t) /\ ret[t].req.group_by.enabled)
                  => /\ qproc[t].samples = <<>>
                     /\ \A i \in DOMAIN qproc[t].errors :
                           qproc[t].errors[i] = "AKU_EBAD_DATA"
                              => i = Len(qproc[t].errors))
    /\ [][\A t \in Threads :
            (Reading(t) /\ QueryStep(t) /\ call[t].req.group_by.enabled) =>
               LET r == ChainIterator_read(call[t].chain, DestSize)
                   map == call[t].req.group_by.transient_map
                   ok == r.status \in {"AKU_SUCCESS", "AKU_ENO_DATA"}
                   bad == \E i \in DOMAIN r.out : r.out[i].paramid \notin map
               IN /\ (ok /\ bad) =>
                        /\ Queried(t)'
                        /\ ret'[t].reads = call[t].reads + 1
                        /\ qproc'[t].errors = Append(qproc[t].errors, "AKU_EBAD_DATA")
                  /\ (ok /\ ~bad) => qproc'[t] = qproc[t]]_vars

\* A group-by query passed its first batch and returned on the second, which
\* held an id that is no key of the map, with samples still unread.
C16_Witness ==
    \E t \in Threads :
        /\ Queried(t) /\ ret[t].req.group_by.enabled
        /\ qproc[t].errors = <<"AKU_EBAD_DATA">>
        /\ ret[t].reads = 2
        /\ Len(Expected(ret[t].found)) > 2 * DestSize

\* C17: when a read of the query comes back with a status other than
\* AKU_SUCCESS and AKU_ENO_DATA, the query calls set_error with that status
\* once and returns: nothing is put afterwards, no further batch is read,
\* and the samples of that batch are not delivered.
C17_IterationError ==
    /\ [](\A t \in Threads :
            Queried(t) =>
               \A i \in DOMAIN qproc[t].errors :
                  qproc[t].errors[i] = "AKU_EUNAVAILABLE"
                     => i = Len(qproc[t].errors))
    /\ [][\A t \in Threads :
            (Reading(t) /\ QueryStep(t)) =>
               LET r == ChainIterator_read(call[t].chain, DestSize)
               IN r.status \notin {"AKU_SUCCESS", "AKU_ENO_DATA"} =>
                     /\ Queried(t)'
                     /\ ret'[t].reads = call[t].reads + 1
                     /\ qproc'[t].errors = Append(qproc[t].errors, r.status)
                     /\ qproc'[t].samples = qproc[t].samples]_vars

\* The first iterator delivered a full batch; in the second batch its last
\* sample was read and then the second iterator failed: the query reported
\* the error and that sample was not delivered.
C17_Witness ==
    \E t \in Threads :
        /\ Queried(t)
        /\ Len(ret[t].found) = 2
        /\ ret[t].found[1].style = "lazy" /\ ret[t].found[2].style = "fail"
        /\ qproc[t].errors = <<"AKU_EUNAVAILABLE">>
        /\ ret[t].reads = 2
        /\ Len(qproc[t].samples) = DestSize
        /\ Len(ret[t].found[1].data) > DestSize

\* C12: every ColumnStore::query call eventually returns, for either
\* order_by value and any mix of registered and unregistered ids, the inner
\* iterators yielding finitely many samples.
C12_QueryReturns ==
    \A t \in Threads :
        (call[t].op = "ColumnStore::query") ~> Queried(t)

\* C13: no thread indexes the series table without holding table_lock_ while
\* another thread stands before an insert into it.
C13_TableUnderLock ==
    \A t \in Threads :
        pc[t] = "cnc_init" => (table_lock = t \/ ~InsertPending(t))

\* C18: a CStoreSession::write that hits the session cache never takes
\* table_lock_: entering and leaving the cached append leave the lock as it
\* is, and the append can complete whoever holds the lock.
C18_CachedWriteLockFree ==
    /\ [](\A t \in Threads :
            pc[t] = "cached_append" =>
               /\ table_lock # t
               /\ (~crashed => ENABLED CStoreSession_write_append(t)))
    /\ [][\A t \in Threads :
            ( \/ pc[t] = "idle" /\ pc'[t] = "cached_append"
              \/ pc[t] = "cached_append" /\ pc'[t] = "idle" )
            => table_lock' = table_lock]_vars

\* A session is inside a cached append while another thread holds the table
\* lock inside ColumnStore::close.
C18_Witness ==
    \E t, u \in Threads :
        /\ t # u
        /\ pc[t] = "cached_append"
        /\ table_lock = u /\ pc[u] = "closing"

\* C19: every session cache is a sub-map of the table: a cached id is
\* registered and its handle is the tree the table holds for it; an entry is
\* never removed or rebound, and an entry is added only by a registry write
\* of the session that found the id; this under every interleaving of
\* create_new_column, write, query, close and _get_uncommitted_memory calls.
C19_CacheSubMap ==
    /\ [](\A t \in Threads, id \in Ids :
            cache[t][id] # NoTree => columns[id] = cache[t][id])
    /\ [][\A t \in Threads, id \in Ids :
            /\ cache[t][id] # NoTree => cache'[t][id] = cache[t][id]
            /\ cache'[t][id] # cache[t][id] =>
                  /\ pc[t] = "write_return"
                  /\ call[t].use_cache
                  /\ call[t].sample.paramid = id
                  /\ cache'[t][id] = call[t].tree
                  /\ columns[id] = call[t].tree]_vars

\* A session that has cached the tree of a series by a registry write has
\* queried that series, and the query has returned after its lookup found
\* the tree with the sample in it.
C19_Witness ==
    \E t \in Threads :
        /\ Queried(t)
        /\ ret[t].found # <<>>
        /\ ret[t].found[1].data # <<>>
        /\ cache[t][ret[t].found[1].series] = columns[ret[t].found[1].series]
        /\ cache[t][ret[t].found[1].series] # NoTree

\* C20: no append or close is issued on a tree whose force_init has not
\* completed.
C20_InitBeforeUse ==
    \A t \in Threads :
        MutatingTree(t) # NoTree => trees[MutatingTree(t)].ninit >= 1

\* The query of thread t has looked up some but not all of its select ids.
BetweenLookups(t) ==
    /\ pc[t] = "query_lookup"
    /\ call[t].next > 1
    /\ call[t].next <= Len(call[t].req.select.ids)

\* C14: the lookups of one query are one critical section of table_lock_:
\* between the lookup of one select id and the lookup of the next no
\* create_new_column, write or close of another thread takes effect on the
\* table or the trees.
C14_LookupsAtomic ==
    [][\A t \in Threads :
          BetweenLookups(t) => columns' = columns /\ trees' = trees]_vars
====
